---- MODULE Spec2Model ----
(***************************************************************************)
(* A model of cppdi::Container (include/Container.hpp): a dependency       *)
(* injection registry with transient and singleton lifetimes.              *)
(*                                                                         *)
(* Several Container objects live in one program; several threads call     *)
(* GetService / GetRequiredService on them.  A resolution is modelled      *)
(* statement by statement: every thread owns a call stack of GetService    *)
(* frames, because a registry-aware factory calls back into the container. *)
(*                                                                         *)
(* The two AddTransient/AddSingleton overloads that take a                 *)
(* std::function<std::shared_ptr<Type>(const Container&)> write *this in a *)
(* lambda that captures only [creator].  They are modelled as the call     *)
(* they spell out: the creator is applied to the container the             *)
(* registration was made on.                                               *)
(***************************************************************************)
EXTENDS Integers, Sequences, FiniteSets, TLC

\* ------------------------------------------------------------------ bounds
MaxRegs == 2      \* registration calls made by the program
MaxRegsTwin == 3  \* the same, for the program that sets up two containers alike
MaxObjs == 3      \* service objects ever constructed
MaxDepth == 2     \* GetService activations nested in one call
MaxRuns == 2      \* runs of one producer up to which it may still throw

Containers == {"c1", "c2"}
Threads == {"t1", "t2"}
Types == {"A", "B"}
Keys == {1, 2}

Null == 0         \* an empty std::shared_ptr

\* The service a registry-aware factory of the embedding application asks the
\* container for before it builds its own result ("-" : it asks for nothing).
DepOf(T) == IF T = "A" THEN "B" ELSE "-"

TransientShapes == {"TransientType", "TransientInstance", "TransientFactory", "TransientFactoryC"}
SingletonShapes == {"SingletonType", "SingletonInstance", "SingletonFactory", "SingletonFactoryC"}
MemoShapes == {"SingletonFactory", "SingletonFactoryC"}

VARIABLES
    typeHash,      \* typeid(T).hash_code() of every type
    _services,     \* per container: key -> registered creator
    _singletons,   \* per container: key -> cached instance (Null: no entry)
    memo,          \* the function-local statics of the two memo lambdas, per Type
    heap,          \* every object constructed so far; an object's id is its index
    invocations,   \* per container and type: runs of the producer registered there
    result,        \* per thread: the outcome of the last call it made
    stack,         \* per thread: the GetService frames it is executing
    nregs          \* registration calls made so far

vars == <<typeHash, _services, _singletons, memo, heap, invocations, result, stack, nregs>>

hash_code(T) == typeHash[T]

\* A map slot with nothing in it (find(key) = end()).
NoCreator == [shape |-> "none", type |-> "-", owner |-> "-", instance |-> Null]

\* The closure AddService stores: what it does (shape), the type held by the
\* std::any it returns, the container captured as `this`, the captured instance.
Creator(shape, T, c, inst) == [shape |-> shape, type |-> T, owner |-> c, instance |-> inst]

\* A function-local static: not initialised, being initialised by a thread, or
\* initialised for the rest of the program.
NoStatic == [state |-> "uninit", value |-> Null, by |-> "-"]
Initialising(t) == [state |-> "running", value |-> Null, by |-> t]
Initialised(val) == [state |-> "done", value |-> val, by |-> "-"]

\* No call made yet.
NoResult ==
    [c |-> "-", T |-> "-", e |-> NoCreator, kind |-> "none", value |-> Null,
     required |-> [kind |-> "none", what |-> "-"], fresh |-> FALSE, built |-> 0, runs |-> 0]

Init ==
    /\ typeHash = [T \in Types |-> IF T = "A" THEN 1 ELSE 2]
    /\ _services = [c \in Containers |-> [k \in Keys |-> NoCreator]]
    /\ _singletons = [c \in Containers |-> [k \in Keys |-> Null]]
    /\ memo = [s \in MemoShapes |-> [T \in Types |-> NoStatic]]
    /\ heap = << >>
    /\ invocations = [c \in Containers |-> [T \in Types |-> 0]]
    /\ result = [t \in Threads |-> NoResult]
    /\ stack = [t \in Threads |-> << >>]
    /\ nregs = 0

AllIdle == \A t \in Threads : stack[t] = << >>

\* An insertion that overwrites, as insert_or_assign would (a faulty variant,
\* for C9).
MapAssign(m, k, v, absent) == [m EXCEPT ![k] = v]

\* std::map::emplace: inserts only when the key is not in the map.
MapEmplace(m, k, v, absent) == IF m[k] = absent THEN [m EXCEPT ![k] = v] ELSE m

\* Container::AddService<Base, Derived> / AddService<Type>.
AddService(c, T, serviceCreator) ==
    [_services EXCEPT ![c] = MapEmplace(_services[c], hash_code(T), serviceCreator, NoCreator)]

\* A new object of type T: which constructor built it, the handle it was built
\* around (a factory's dependency, or the instance make_shared was given), the
\* creator that built it and the container that creator was registered on.
NewObject(T, ctor, dep, e) ==
    [type |-> T, ctor |-> ctor, dep |-> dep, via |-> e.shape, by |-> e.owner]

HeapFull == Len(heap) >= MaxObjs
NextId == Len(heap) + 1

\* A registration that runs the producer at once (a faulty variant, for C7).
RegisterEager(c, T, shape, max) ==
    /\ AllIdle
    /\ nregs < max
    /\ ~HeapFull
    /\ nregs' = nregs + 1
    /\ heap' = Append(heap, NewObject(T, "factory", Null, [shape |-> shape, owner |-> c]))
    /\ invocations' = [invocations EXCEPT ![c][T] = @ + 1]
    /\ _services' = AddService(c, T, Creator(shape, T, c, Null))
    /\ UNCHANGED <<typeHash, _singletons, memo, result, stack>>

\* Registration by type or by factory: nothing is constructed.
Register(c, T, shape, max) ==
    /\ AllIdle
    /\ nregs < max
    /\ nregs' = nregs + 1
    /\ _services' = AddService(c, T, Creator(shape, T, c, Null))
    /\ UNCHANGED <<typeHash, _singletons, memo, heap, invocations, result, stack>>

\* Registration of an instance the caller built beforehand.
RegisterInstance(c, T, shape, max) ==
    /\ AllIdle
    /\ nregs < max
    /\ ~HeapFull
    /\ nregs' = nregs + 1
    /\ heap' = Append(heap, NewObject(T, "user", Null, [shape |-> "user", owner |-> c]))
    /\ _services' = AddService(c, T, Creator(shape, T, c, NextId))
    /\ UNCHANGED <<typeHash, _singletons, memo, invocations, result, stack>>

AddTransientType(c, T, max) == Register(c, T, "TransientType", max)
AddSingletonType(c, T, max) == Register(c, T, "SingletonType", max)
AddTransientInstance(c, T, max) == RegisterInstance(c, T, "TransientInstance", max)
AddSingletonInstance(c, T, max) == RegisterInstance(c, T, "SingletonInstance", max)
AddTransientFactory(c, T, max) == Register(c, T, "TransientFactory", max)
AddSingletonFactory(c, T, max) == Register(c, T, "SingletonFactory", max)
AddTransientFactoryC(c, T, max) == Register(c, T, "TransientFactoryC", max)
AddSingletonFactoryC(c, T, max) == Register(c, T, "SingletonFactoryC", max)

\* ------------------------------------------------------------ resolution
Top(t) == stack[t][Len(stack[t])]
At(t, pc) == stack[t] # << >> /\ Top(t).pc = pc
Running(t, shapes) == stack[t] # << >> /\ Top(t).e.shape \in shapes

\* One activation of GetService<T> on container c; e: the creator found in
\* _services (it->second); tmp: a handle held in a local variable.  h0 and i0
\* remember the heap size and the producer's run count at the time of the call.
Frame(c, T, e, pc) ==
    [c |-> c, T |-> T, e |-> e, pc |-> pc, tmp |-> Null,
     h0 |-> Len(heap), i0 |-> IF e.shape = "none" THEN 0 ELSE invocations[e.owner][e.type]]

SetTop(t, f) == [stack EXCEPT ![t] = [@ EXCEPT ![Len(@)] = f]]
Goto(t, pc) == SetTop(t, [Top(t) EXCEPT !.pc = pc])

\* GetRequiredService without its null check (a faulty variant, for C3).
GetRequiredServiceLenient(T, service) == [kind |-> "returned", what |-> "-"]

\* GetRequiredService<T>, given what its call of GetService<T> returned: it
\* returns the same handle, or throws the std::runtime_error whose message ends
\* with the name of the type.
GetRequiredService(T, service) ==
    IF service = Null
    THEN [kind |-> "runtime_error", what |-> T]
    ELSE [kind |-> "returned", what |-> "-"]

\* The outcome of a finished top-level call.  The program makes it through
\* GetService or through GetRequiredService, which wraps GetService: kind and
\* value are what GetService did, required is what GetRequiredService makes of
\* it.  e is the creator the call ran, fresh tells that the object handed out
\* was built during the call, built counts the objects built during the call,
\* runs counts the runs of e's producer during the call.
Outcome(f, kind, val, inv, h) ==
    [c |-> f.c, T |-> f.T, e |-> f.e, kind |-> kind, value |-> val,
     required |-> IF kind = "returned" THEN GetRequiredService(f.T, val)
                  ELSE [kind |-> kind, what |-> "-"],
     fresh |-> val > f.h0, built |-> Len(h) - f.h0,
     runs |-> IF f.e.shape = "none" THEN 0 ELSE inv[f.e.owner][f.e.type] - f.i0]

\* A static that an exception leaves marked as being initialised (a faulty
\* variant, for C14).
UnwindNone(m, t) == m

\* A function-local static whose initialisation was left by an exception is
\* not initialised.
Unwind(m, t) ==
    [s \in MemoShapes |-> [T \in Types |->
        IF m[s][T].state = "running" /\ m[s][T].by = t THEN NoStatic ELSE m[s][T]]]

\* The creator has produced `val`: std::any_cast to shared_ptr<T> and return to
\* the caller, which is the program or a factory that asked for a dependency.
\* m, inv and h are the values of memo, invocations and heap this step leaves
\* behind.
Return(t, val, m, inv, h) ==
    LET f == Top(t)
        bottom == stack[t][1]
    IN  IF f.e.type # f.T
        THEN /\ stack' = [stack EXCEPT ![t] = << >>]
             /\ result' = [result EXCEPT ![t] = Outcome(bottom, "bad_any_cast", Null, inv, h)]
             /\ memo' = Unwind(m, t)
        ELSE IF Len(stack[t]) = 1
        THEN /\ stack' = [stack EXCEPT ![t] = << >>]
             /\ result' = [result EXCEPT ![t] = Outcome(f, "returned", val, inv, h)]
             /\ memo' = m
        ELSE /\ stack' = [stack EXCEPT ![t] =
                    [i \in 1..(Len(@) - 1) |->
                        IF i = Len(@) - 1 THEN [@[i] EXCEPT !.tmp = val, !.pc = "make"] ELSE @[i]]]
             /\ result' = result
             /\ memo' = m

\* Where a creator starts, by what it is.
Entry(e) ==
    IF e.shape = "SingletonType" THEN "find"
    ELSE IF e.shape \in MemoShapes THEN "guard"
    ELSE "create"

\* GetService looking the key up with _services[key], which inserts an empty
\* creator for a key that is not there (a faulty variant, for C12).
GetServiceIndexing(t, c, T) ==
    LET it == _services[c][hash_code(T)] IN
    /\ stack[t] = << >>
    /\ IF it = NoCreator
       THEN /\ result' = [result EXCEPT ![t] =
                    Outcome(Frame(c, T, it, "-"), "returned", Null, invocations, heap)]
            /\ stack' = stack
            /\ _services' = [_services EXCEPT ![c][hash_code(T)] = Creator("TransientFactory", T, c, Null)]
       ELSE /\ stack' = [stack EXCEPT ![t] = <<Frame(c, T, it, Entry(it))>>]
            /\ result' = [result EXCEPT ![t] = NoResult]
            /\ _services' = _services
    /\ UNCHANGED <<typeHash, _singletons, memo, heap, invocations, nregs>>

\* GetService<T> called on container c by the program, directly or through
\* GetRequiredService<T>: the lookup in _services; for an unregistered type it
\* returns nullptr at once.
GetService(t, c, T) ==
    LET it == _services[c][hash_code(T)] IN
    /\ stack[t] = << >>
    /\ IF it = NoCreator
       THEN /\ result' = [result EXCEPT ![t] =
                    Outcome(Frame(c, T, it, "-"), "returned", Null, invocations, heap)]
            /\ stack' = stack
       ELSE /\ stack' = [stack EXCEPT ![t] = <<Frame(c, T, it, Entry(it))>>]
            /\ result' = [result EXCEPT ![t] = NoResult]
    /\ UNCHANGED <<typeHash, _services, _singletons, memo, heap, invocations, nregs>>

Invoked(c, T) == [invocations EXCEPT ![c][T] = @ + 1]

\* AddTransient<Base, Derived> wired to the memoizing creator (a faulty
\* variant, for C2): the first object built is cached and handed out again.
TransientCreatorCached(t) ==
    LET e == Top(t).e
        key == hash_code(e.type)
        hit == _singletons[e.owner][key] # Null
    IN
    /\ At(t, "create") /\ Running(t, {"TransientType"})
    /\ hit \/ ~HeapFull
    /\ IF hit
       THEN /\ UNCHANGED <<heap, invocations, _singletons>>
            /\ Return(t, _singletons[e.owner][key], memo, invocations, heap)
       ELSE /\ heap' = Append(heap, NewObject(e.type, "default", Null, e))
            /\ invocations' = Invoked(e.owner, e.type)
            /\ _singletons' = [_singletons EXCEPT ![e.owner][key] = NextId]
            /\ Return(t, NextId, memo, invocations', heap')
    /\ UNCHANGED <<typeHash, _services, nregs>>

\* GetTransientCreator's lambda: CreateInstance<Base, Derived>(*this).
TransientCreator(t) ==
    /\ At(t, "create") /\ Running(t, {"TransientType"})
    /\ ~HeapFull
    /\ heap' = Append(heap, NewObject(Top(t).e.type, "default", Null, Top(t).e))
    /\ invocations' = Invoked(Top(t).e.owner, Top(t).e.type)
    /\ Return(t, NextId, memo, invocations', heap')
    /\ UNCHANGED <<typeHash, _services, _singletons, nregs>>

\* AddTransient(instance)'s lambda: std::make_shared<Type>(instance), the
\* constructor of Type that takes the shared_ptr.
TransientInstanceCreator(t) ==
    /\ At(t, "create") /\ Running(t, {"TransientInstance"})
    /\ ~HeapFull
    /\ heap' = Append(heap, NewObject(Top(t).e.type, "from_handle", Top(t).e.instance, Top(t).e))
    /\ invocations' = Invoked(Top(t).e.owner, Top(t).e.type)
    /\ Return(t, NextId, memo, invocations', heap')
    /\ UNCHANGED <<typeHash, _services, _singletons, nregs>>

\* AddSingleton(instance)'s lambda: return instance.
SingletonInstanceCreator(t) ==
    /\ At(t, "create") /\ Running(t, {"SingletonInstance"})
    /\ Return(t, Top(t).e.instance, memo, invocations, heap)
    /\ UNCHANGED <<typeHash, _services, _singletons, heap, invocations, nregs>>

\* AddTransient(creator): the caller's zero-argument factory is the creator.
TransientFactoryCreator(t) ==
    /\ At(t, "create") /\ Running(t, {"TransientFactory"})
    /\ ~HeapFull
    /\ heap' = Append(heap, NewObject(Top(t).e.type, "factory", Null, Top(t).e))
    /\ invocations' = Invoked(Top(t).e.owner, Top(t).e.type)
    /\ Return(t, NextId, memo, invocations', heap')
    /\ UNCHANGED <<typeHash, _services, _singletons, nregs>>

\* GetSingletonCreator's lambda, up to the construction: _singletons.find(key);
\* a hit returns _singletons.at(key), a miss runs the transient creator.
SingletonFind(t) ==
    LET e == Top(t).e
        key == hash_code(e.type)
        hit == _singletons[e.owner][key] # Null
    IN
    /\ At(t, "find") /\ Running(t, {"SingletonType"})
    /\ hit \/ ~HeapFull
    /\ IF hit
       THEN /\ Return(t, _singletons[e.owner][key], memo, invocations, heap)
            /\ UNCHANGED <<heap, invocations>>
       ELSE /\ heap' = Append(heap, NewObject(e.type, "default", Null, e))
            /\ invocations' = Invoked(e.owner, e.type)
            /\ stack' = SetTop(t, [Top(t) EXCEPT !.tmp = NextId, !.pc = "emplace"])
            /\ UNCHANGED <<result, memo>>
    /\ UNCHANGED <<typeHash, _services, _singletons, nregs>>

\* _singletons.emplace(key, singletonService), first half: std::map looks for the
\* key and gives up when it is there.  Nothing makes emplace atomic, so its
\* look-up and its insertion are two steps.
SingletonEmplace(t) ==
    LET e == Top(t).e IN
    /\ At(t, "emplace") /\ Running(t, {"SingletonType"})
    /\ stack' = Goto(t, IF _singletons[e.owner][hash_code(e.type)] = Null THEN "link" ELSE "at")
    /\ UNCHANGED <<typeHash, _services, _singletons, memo, heap, invocations, result, nregs>>

\* The link of an emplace into a cache that all containers share, as a static
\* data member would be (a faulty variant, for C19).
SingletonLinkShared(t) ==
    LET e == Top(t).e IN
    /\ At(t, "link") /\ Running(t, {"SingletonType"})
    /\ _singletons' = [c \in Containers |->
                          [_singletons[c] EXCEPT ![hash_code(e.type)] = Top(t).tmp]]
    /\ stack' = Goto(t, "at")
    /\ UNCHANGED <<typeHash, _services, memo, heap, invocations, result, nregs>>

\* _singletons.emplace, second half: the node is linked into the map.
SingletonLink(t) ==
    LET e == Top(t).e IN
    /\ At(t, "link") /\ Running(t, {"SingletonType"})
    /\ _singletons' = [_singletons EXCEPT ![e.owner][hash_code(e.type)] = Top(t).tmp]
    /\ stack' = Goto(t, "at")
    /\ UNCHANGED <<typeHash, _services, memo, heap, invocations, result, nregs>>

\* A creator that goes back to the emplace until it has read the entry twice
\* the same, which it never settles (a faulty variant, for C18).
SingletonAtRetry(t) ==
    /\ At(t, "at") /\ Running(t, {"SingletonType"})
    /\ stack' = Goto(t, "emplace")
    /\ UNCHANGED <<typeHash, _services, _singletons, memo, heap, invocations, result, nregs>>

\* return _singletons.at(key) after the emplace.
SingletonAt(t) ==
    LET e == Top(t).e IN
    /\ At(t, "at") /\ Running(t, {"SingletonType"})
    /\ Return(t, _singletons[e.owner][hash_code(e.type)], memo, invocations, heap)
    /\ UNCHANGED <<typeHash, _services, _singletons, heap, invocations, nregs>>

\* The memo lambdas of AddSingleton(creator): `static auto instance = ...`.
\* The static belongs to the lambda's type, of which there is one per Type and
\* overload, whatever container or creator the closure was made for.  Its
\* initialisation is guarded: one thread runs it, the others wait.
MemoGuard(t) ==
    LET e == Top(t).e
        slot == memo[e.shape][e.type]
    IN
    /\ At(t, "guard") /\ Running(t, MemoShapes)
    /\ slot.state # "running"
    /\ IF slot.state = "done"
       THEN Return(t, slot.value, memo, invocations, heap)
       ELSE /\ memo' = [memo EXCEPT ![e.shape][e.type] = Initialising(t)]
            /\ stack' = Goto(t, "init")
            /\ result' = result
    /\ UNCHANGED <<typeHash, _services, _singletons, heap, invocations, nregs>>

\* static auto instance = creator(): the zero-argument factory runs.
MemoInit(t) ==
    LET e == Top(t).e IN
    /\ At(t, "init") /\ Running(t, {"SingletonFactory"})
    /\ ~HeapFull
    /\ heap' = Append(heap, NewObject(e.type, "factory", Null, e))
    /\ invocations' = Invoked(e.owner, e.type)
    /\ Return(t, NextId, [memo EXCEPT ![e.shape][e.type] = Initialised(NextId)], invocations', heap')
    /\ UNCHANGED <<typeHash, _services, _singletons, nregs>>

\* creator applied to a Container that holds no registration, as a copy made
\* before any registration would be (a faulty variant, for C16).
FactoryCallDetached(t) ==
    LET e == Top(t).e IN
    /\ \/ At(t, "create") /\ Running(t, {"TransientFactoryC"})
       \/ At(t, "init") /\ Running(t, {"SingletonFactoryC"})
    /\ invocations' = Invoked(e.owner, e.type)
    /\ stack' = Goto(t, "make")
    /\ UNCHANGED <<typeHash, _services, _singletons, memo, heap, result, nregs>>

\* creator(*this): the registry-aware factory starts and asks the container for
\* its dependency with GetService.
FactoryCall(t) ==
    LET e == Top(t).e
        dep == DepOf(e.type)
        it == IF dep = "-" THEN NoCreator ELSE _services[e.owner][hash_code(dep)]
    IN
    /\ \/ At(t, "create") /\ Running(t, {"TransientFactoryC"})
       \/ At(t, "init") /\ Running(t, {"SingletonFactoryC"})
    /\ it = NoCreator \/ Len(stack[t]) < MaxDepth
    /\ invocations' = Invoked(e.owner, e.type)
    /\ stack' = IF it = NoCreator
                THEN Goto(t, "make")
                ELSE [stack EXCEPT ![t] =
                        Append(SetTop(t, [Top(t) EXCEPT !.pc = "wait"])[t],
                               Frame(e.owner, dep, it, Entry(it)))]
    /\ UNCHANGED <<typeHash, _services, _singletons, memo, heap, result, nregs>>

\* The factory builds its result around the dependency it got and returns it;
\* the memo lambda stores it in its static.
FactoryMake(t) ==
    LET e == Top(t).e IN
    /\ At(t, "make") /\ Running(t, {"TransientFactoryC", "SingletonFactoryC"})
    /\ ~HeapFull
    /\ heap' = Append(heap, NewObject(e.type, "factory", Top(t).tmp, e))
    /\ Return(t, NextId, IF e.shape = "SingletonFactoryC"
                         THEN [memo EXCEPT ![e.shape][e.type] = Initialised(NextId)]
                         ELSE memo, invocations, heap')
    /\ UNCHANGED <<typeHash, _services, _singletons, invocations, nregs>>

\* A producer of the embedding application throws: CreateInstance, the
\* constructor make_shared calls, or a factory (a registry-aware one after it
\* got its dependency).  Nothing in the container catches: the exception leaves
\* every GetService activation of the thread and reaches the program; the
\* statics whose initialisation it leaves stay uninitialised.
ProducerThrows(t) ==
    LET e == Top(t).e
        inv == IF At(t, "make") THEN invocations ELSE Invoked(e.owner, e.type)
    IN
    /\ \/ At(t, "create") /\ Running(t, {"TransientType", "TransientInstance", "TransientFactory"})
       \/ At(t, "find") /\ Running(t, {"SingletonType"})
            /\ _singletons[e.owner][hash_code(e.type)] = Null
       \/ At(t, "init") /\ Running(t, {"SingletonFactory"})
       \/ At(t, "make") /\ Running(t, {"TransientFactoryC", "SingletonFactoryC"})
    /\ inv[e.owner][e.type] <= MaxRuns
    /\ invocations' = inv
    /\ stack' = [stack EXCEPT ![t] = << >>]
    /\ result' = [result EXCEPT ![t] = Outcome(stack[t][1], "exception", Null, inv, heap)]
    /\ memo' = Unwind(memo, t)
    /\ UNCHANGED <<typeHash, _services, _singletons, heap, nregs>>

\* A factory of the embedding application returns an empty shared_ptr.  The
\* creator wraps it in a std::any like any other handle; the memo lambda keeps
\* it in its static.
ProducerReturnsNull(t) ==
    LET e == Top(t).e
        inv == IF At(t, "make") THEN invocations ELSE Invoked(e.owner, e.type)
    IN
    /\ \/ At(t, "create") /\ Running(t, {"TransientFactory"})
       \/ At(t, "init") /\ Running(t, {"SingletonFactory"})
       \/ At(t, "make") /\ Running(t, {"TransientFactoryC", "SingletonFactoryC"})
    /\ inv[e.owner][e.type] <= MaxRuns
    /\ invocations' = inv
    /\ Return(t, Null, IF e.shape \in MemoShapes
                       THEN [memo EXCEPT ![e.shape][e.type] = Initialised(Null)]
                       ELSE memo, inv, heap)
    /\ UNCHANGED <<typeHash, _services, _singletons, heap, nregs>>

\* Container dst(src): the implicit copy constructor copies both maps.  The
\* copied creators are the same closures: those that captured `this` still
\* point to src.
CopyContainer(src, dst) ==
    /\ AllIdle
    /\ src # dst
    /\ \E k \in Keys : _services[src][k] # NoCreator
    /\ \A k \in Keys : _services[dst][k] = NoCreator /\ _singletons[dst][k] = Null
    /\ _services' = [_services EXCEPT ![dst] = _services[src]]
    /\ _singletons' = [_singletons EXCEPT ![dst] = _singletons[src]]
    /\ UNCHANGED <<typeHash, memo, heap, invocations, result, stack, nregs>>

\* ------------------------------------------------------------ the program
Registration(C, max) ==
    \E c \in C, T \in Types :
        \/ AddTransientType(c, T, max)
        \/ AddSingletonType(c, T, max)
        \/ AddTransientInstance(c, T, max)
        \/ AddSingletonInstance(c, T, max)
        \/ AddTransientFactory(c, T, max)
        \/ AddSingletonFactory(c, T, max)
        \/ AddTransientFactoryC(c, T, max)
        \/ AddSingletonFactoryC(c, T, max)

\* The steps of the creators, which run inside a call of GetService.
Creators(t) ==
    \/ TransientCreator(t)
    \/ TransientInstanceCreator(t)
    \/ SingletonInstanceCreator(t)
    \/ TransientFactoryCreator(t)
    \/ SingletonFind(t)
    \/ SingletonEmplace(t)
    \/ SingletonLink(t)
    \/ SingletonAt(t)
    \/ MemoGuard(t)
    \/ MemoInit(t)
    \/ FactoryCall(t)
    \/ FactoryMake(t)

Resolution(t, C) ==
    \/ \E c \in C, T \in Types : GetService(t, c, T)
    \/ Creators(t)

\* A single-threaded program with several containers: every call returns
\* before the next one is made.
MainThread == "t1"
Next == Registration(Containers, MaxRegs) \/ Resolution(MainThread, Containers)

Spec == Init /\ [][Next]_vars

\* A program whose threads resolve concurrently from one container they share.
\* Registration is its setup phase: it is over when the first resolution begins.
Shared == {"c1"}
Setup == \A t \in Threads : stack[t] = << >> /\ result[t] = NoResult
NextConc == (Setup /\ Registration(Shared, MaxRegs)) \/ \E t \in Threads : Resolution(t, Shared)

SpecConc == Init /\ [][NextConc]_vars

\* A single-threaded program that sets up two containers, one more
\* registration in all, and resolves only after the setup.
NextTwin ==
    (Setup /\ Registration(Containers, MaxRegsTwin)) \/ Resolution(MainThread, Containers)

SpecTwin == Init /\ [][NextTwin]_vars

\* A build in which typeid(A).hash_code() = typeid(B).hash_code(): the standard
\* allows two types to have the same hash code.
Colliding == [T \in Types |-> 1]

InitCollide ==
    /\ typeHash = Colliding
    /\ _services = [c \in Containers |-> [k \in Keys |-> NoCreator]]
    /\ _singletons = [c \in Containers |-> [k \in Keys |-> Null]]
    /\ memo = [s \in MemoShapes |-> [T \in Types |-> NoStatic]]
    /\ heap = << >>
    /\ invocations = [c \in Containers |-> [T \in Types |-> 0]]
    /\ result = [t \in Threads |-> NoResult]
    /\ stack = [t \in Threads |-> << >>]
    /\ nregs = 0

SpecCollide == InitCollide /\ [][Next]_vars

\* A single-threaded program with one container, some of whose producers throw.
NextThrow ==
    \/ Registration(Shared, MaxRegs)
    \/ Resolution(MainThread, Shared)
    \/ ProducerThrows(MainThread)

SpecThrow == Init /\ [][NextThrow]_vars

\* A single-threaded program with one container, some of whose factories
\* return an empty handle.
NextNull ==
    \/ Registration(Shared, MaxRegs)
    \/ Resolution(MainThread, Shared)
    \/ ProducerReturnsNull(MainThread)

SpecNull == Init /\ [][NextNull]_vars

\* A single-threaded program that also copies a container into a new one.
NextCopy == Next \/ \E src, dst \in Containers : CopyContainer(src, dst)

SpecCopy == Init /\ [][NextCopy]_vars

\* A single-threaded program all of whose producers return, and whose thread
\* keeps running while it is inside a call.  A call is begun only while the
\* heap has room for the objects it may build.
Room == Len(heap) + MaxDepth <= MaxObjs
Continue(t) == Creators(t)
NextLive ==
    \/ Registration(Containers, MaxRegs)
    \/ \E c \in Containers, T \in Types : Room /\ GetService(MainThread, c, T)
    \/ Creators(MainThread)

SpecLive == Init /\ [][NextLive]_vars /\ WF_vars(Continue(MainThread))

\* ----------------------------------------------------------------- claims
\* The creator registered for T in container c.
Registered(c, T) == _services[c][hash_code(T)]

\* Singleton registrations that have a producer to run.
ProducedSingletons == {"SingletonType", "SingletonFactory", "SingletonFactoryC"}

\* The instance a singleton creator holds once it is realized (Null before).
Realized(e) ==
    IF e.shape = "SingletonType" THEN _singletons[e.owner][hash_code(e.type)]
    ELSE IF e.shape \in MemoShapes THEN memo[e.shape][e.type].value
    ELSE e.instance

Finished(t) == result[t].kind # "none"
Handed(t) == result[t].kind = "returned" /\ result[t].value # Null

\* C1: every finished GetService<T>() on a container where T is a singleton
\* (by type, by factory, by registry-aware factory) returned the one realized
\* instance, and the producer registered for T in that container has run
\* exactly once.
C1_SingletonOnce ==
    \A t \in Threads :
        Finished(t) /\ result[t].e.shape \in ProducedSingletons =>
            /\ result[t].kind = "returned"
            /\ result[t].value = Realized(result[t].e)
            /\ invocations[result[t].e.owner][result[t].e.type] = 1

\* C2: every finished GetService<T>() on a transient T ran T's producer exactly
\* once and handed out an object built during that very call (so it differs
\* from every object handed out or registered before), and that object is in
\* no singleton cache.
C2_TransientFresh ==
    \A t \in Threads :
        Finished(t) /\ result[t].e.shape \in TransientShapes =>
            /\ result[t].kind = "returned"
            /\ result[t].runs = 1
            /\ result[t].fresh
            /\ \A c \in Containers, k \in Keys :
                  /\ _singletons[c][k] # result[t].value
                  /\ _singletons[c][k] # Null => heap[_singletons[c][k]].via \notin TransientShapes

\* C2's case: the last of several resolutions of one transient, all the
\* objects there are having come from its producer.
C2_Witness ==
    /\ Finished(MainThread) /\ result[MainThread].e.shape \in TransientShapes
    /\ result[MainThread].value = MaxObjs
    /\ \A i \in 1..MaxObjs :
          heap[i].type = heap[1].type /\ heap[i].by = heap[1].by /\ heap[i].ctor = heap[1].ctor
    /\ heap[1].ctor # "user"

\* C3: for a type with no registration, GetService returns the empty handle
\* without throwing and GetRequiredService throws the runtime_error that names
\* the type; the call builds and runs nothing.
C3_Unregistered ==
    \A t \in Threads :
        Finished(t) /\ Registered(result[t].c, result[t].T) = NoCreator =>
            /\ result[t].built = 0 /\ result[t].runs = 0
            /\ result[t].kind = "returned" /\ result[t].value = Null
            /\ result[t].required.kind = "runtime_error"
            /\ result[t].required.what = result[t].T

\* C3's case: GetRequiredService on an unregistered type after registrations
\* and resolutions of other types.
C3_Witness ==
    /\ result[MainThread].required.kind = "runtime_error"
    /\ nregs > 0
    /\ \E i \in 1..Len(heap) : heap[i].ctor # "user"

\* C4: a finished GetService<T>() on a container where T is a singleton handed
\* out an instance that this container's own producer built.
C4_OwnInstance ==
    \A t \in Threads :
        Finished(t) /\ result[t].e.shape \in ProducedSingletons =>
            /\ Handed(t)
            /\ heap[result[t].value].by = result[t].c

\* C5: the producer of a singleton runs at most once, and exactly once as soon
\* as a call has handed the singleton out, however the threads' calls
\* interleave.
C5_ProducerOnceConcurrent ==
    \A c \in Containers, T \in Types :
        Registered(c, T).shape \in ProducedSingletons =>
            /\ invocations[c][T] <= 1
            /\ \A t \in Threads :
                Finished(t) /\ result[t].c = c /\ result[t].T = T => invocations[c][T] = 1

\* C6: all the threads that resolved the same singleton received the same
\* instance.
C6_SameInstanceConcurrent ==
    \A t, u \in Threads :
        /\ Finished(t) /\ Finished(u)
        /\ result[t].c = result[u].c /\ result[t].T = result[u].T
        /\ result[t].e.shape \in ProducedSingletons
        => /\ Handed(t) /\ Handed(u)
           /\ result[t].value = result[u].value

\* C7: a registration never runs a producer, so that no producer has run
\* before the first resolution; a producer's run count grows by one at a time
\* and only in a step of a call that is resolving that producer's type (for the
\* program or for a factory), and a singleton's only from 0 to 1.
C7_Lazy ==
    /\ [](Setup => \A c \in Containers, T \in Types : invocations[c][T] = 0)
    /\ [][/\ nregs' # nregs => invocations' = invocations
          /\ \A c \in Containers, T \in Types :
                invocations'[c][T] # invocations[c][T] =>
                    /\ invocations'[c][T] = invocations[c][T] + 1
                    /\ Registered(c, T).shape \in ProducedSingletons => invocations[c][T] = 0
                    /\ \E t \in Threads :
                        /\ stack[t] # << >>
                        /\ Top(t).e = Registered(c, T)
                        /\ Top(t).e.owner = c /\ Top(t).e.type = T]_vars

\* C7's case: a registered singleton whose producer ran for the first time in
\* the call that has just resolved it.
C7_Witness ==
    /\ Finished(MainThread)
    /\ result[MainThread].e.shape \in ProducedSingletons
    /\ result[MainThread].runs = 1
    /\ invocations[result[MainThread].c][result[MainThread].T] = 1

\* C8: when A is a singleton built by a registry-aware factory that resolves B,
\* and B is a singleton of the same container, a finished GetService<A>() hands
\* out an A that holds the container's realized B, whose producer ran once.
C8_SharedDependency ==
    \A t \in Threads :
        LET r == result[t]
            B == DepOf(r.T)
        IN  /\ Finished(t) /\ r.e.shape = "SingletonFactoryC" /\ B # "-"
            /\ Registered(r.c, B).shape \in ProducedSingletons
            => /\ Handed(t)
               /\ heap[r.value].dep # Null
               /\ heap[r.value].dep = Realized(Registered(r.c, B))
               /\ invocations[r.c][B] = 1

\* C9: an entry of the registry, once made, is never changed by a later
\* registration, and every call runs the creator that is registered.
C9_FirstWins ==
    /\ [][\A c \in Containers, k \in Keys :
            _services[c][k] # NoCreator => _services'[c][k] = _services[c][k]]_vars
    /\ [](\A t \in Threads :
            /\ stack[t] # << >> => stack[t][1].e = Registered(stack[t][1].c, stack[t][1].T)
            /\ Finished(t) /\ result[t].e # NoCreator =>
                    result[t].e = Registered(result[t].c, result[t].T))

\* C9's case: a second registration of a type was made and dropped, and the
\* type was resolved.
C9_Witness ==
    /\ nregs = 2
    /\ Cardinality({<<c, k>> \in Containers \X Keys : _services[c][k] # NoCreator}) = 1
    /\ Finished(MainThread) /\ result[MainThread].e # NoCreator

\* C10: a singleton registered from an instance resolves to that instance and
\* builds nothing; a transient registered from an instance resolves to a fresh
\* copy of it, never to the instance itself.
C10_PrebuiltInstance ==
    \A t \in Threads :
        LET r == result[t] IN
        /\ Finished(t) /\ r.e.shape = "SingletonInstance" =>
                r.kind = "returned" /\ r.value = r.e.instance /\ r.built = 0 /\ r.runs = 0
        /\ Finished(t) /\ r.e.shape = "TransientInstance" =>
                /\ Handed(t) /\ r.fresh /\ r.value # r.e.instance
                /\ heap[r.value].ctor = "copy" /\ heap[r.value].dep = r.e.instance

\* C11: a singleton, once realized, stays realized with the same instance: no
\* step removes an entry of a singleton cache or puts another instance in its
\* place, and an initialised static keeps its value.
C11_CacheMonotone ==
    [][/\ \A c \in Containers, k \in Keys :
            _singletons[c][k] # Null => _singletons'[c][k] = _singletons[c][k]
       /\ \A s \in MemoShapes, T \in Types :
            memo[s][T].state = "done" => memo'[s][T] = memo[s][T]]_vars

\* C12: no step of a resolution changes the service registry; and a call for a
\* type that has no registration returns without touching a singleton cache, a
\* static, the heap or a producer's run count.
C12_ResolutionFrame ==
    [][/\ (stack' # stack \/ result' # result) => _services' = _services
       /\ \A t \in Threads :
            /\ nregs' = nregs
            /\ stack[t] = << >> /\ stack'[t] = << >>
            /\ result'[t].kind # "none" /\ result'[t].e = NoCreator
            => /\ _services' = _services /\ _singletons' = _singletons
               /\ memo' = memo /\ heap' = heap /\ invocations' = invocations]_vars

\* C12's case: a call for an unregistered type has returned from a container
\* that has a registration, while a singleton is cached and producers have run.
C12_Witness ==
    /\ Finished(MainThread) /\ result[MainThread].e = NoCreator
    /\ \E k \in Keys : _services[result[MainThread].c][k] # NoCreator
    /\ \E k \in Keys : _singletons[result[MainThread].c][k] # Null
    /\ \E T \in Types : invocations[result[MainThread].c][T] > 0

\* C13: when the entry found under T's key was registered for another type, the
\* call ends with an error and hands out nothing, and it has neither run that
\* other type's producer nor built or cached anything.
C13_CollisionDetected ==
    \A t \in Threads :
        LET r == result[t] IN
        Finished(t) /\ r.e # NoCreator /\ r.e.type # r.T =>
            /\ r.kind \notin {"returned", "none"}
            /\ r.runs = 0
            /\ r.built = 0
            /\ \A c \in Containers, k \in Keys : _singletons[c][k] <= Len(heap) - r.built

\* The step in which a producer's exception reaches the program that called
\* GetService on thread t.
Throws(t) == stack[t] # << >> /\ result'[t].kind = "exception"

\* The singletons the exception thrown on thread t passes through stay
\* unrealized: no cache entry, the static not initialised.
StaysUninitialized(t) ==
    \A i \in DOMAIN stack[t] :
        LET e == stack[t][i].e IN
        /\ e.shape = "SingletonType" /\ i = Len(stack[t]) =>
                _singletons'[e.owner][hash_code(e.type)] = Null
        /\ e.shape \in MemoShapes => memo'[e.shape][e.type] = NoStatic

\* C14 as stated: when the producer of a singleton throws, the exception reaches
\* the caller of that call only, the registry is unchanged, the singleton stays
\* unrealized, and every singleton cache and static is as it was when the call
\* began (it holds no object built during the call).
C14_FailureLeavesNoTrace ==
    [][\A t \in Threads :
        Throws(t) /\ Top(t).e.shape \in ProducedSingletons =>
            /\ \A u \in Threads \ {t} : result'[u] = result[u] /\ stack'[u] = stack[u]
            /\ _services' = _services
            /\ StaysUninitialized(t)
            /\ \A c \in Containers, k \in Keys : _singletons'[c][k] <= stack[t][1].h0
            /\ \A sh \in MemoShapes, T \in Types : memo'[sh][T].value <= stack[t][1].h0]_vars

\* C14, amended: when the producer of a singleton throws, the exception reaches
\* the caller of that call only, the throwing step changes neither the registry
\* nor a singleton cache nor an initialised static, and the singleton stays
\* unrealized (singletons the call realized for the producer before it threw
\* stay realized).  A finished call on a singleton either ran the producer
\* once, or ran nothing and handed out the instance realized before: so the
\* call that follows a failure runs the producer again.
C14_FailureIsLocal ==
    /\ [][\A t \in Threads :
            Throws(t) /\ Top(t).e.shape \in ProducedSingletons =>
                /\ \A u \in Threads \ {t} : result'[u] = result[u] /\ stack'[u] = stack[u]
                /\ _services' = _services
                /\ _singletons' = _singletons
                /\ \A sh \in MemoShapes, T \in Types :
                        memo[sh][T].state = "done" => memo'[sh][T] = memo[sh][T]
                /\ StaysUninitialized(t)]_vars
    /\ [](\A t \in Threads :
            LET r == result[t] IN
            Finished(t) /\ r.e.shape \in ProducedSingletons =>
                \/ r.runs = 1 /\ (r.kind = "returned" => r.fresh /\ r.value = Realized(r.e))
                \/ r.runs = 0 /\ r.kind = "returned" /\ r.value # Null /\ ~r.fresh)

\* C14's case: the producer of a singleton has thrown for the second time, in
\* the call after the one in which it threw first, while a singleton it
\* depends on is realized.
C14_Witness ==
    /\ result[MainThread].kind = "exception"
    /\ result[MainThread].e.shape = "SingletonFactoryC"
    /\ DepOf(result[MainThread].T) # "-"
    /\ result[MainThread].runs = 1
    /\ invocations[result[MainThread].c][result[MainThread].T] = 2
    /\ Registered(result[MainThread].c, DepOf(result[MainThread].T)).shape = "SingletonType"
    /\ Realized(Registered(result[MainThread].c, DepOf(result[MainThread].T))) # Null

\* C15: a finished GetRequiredService<T>() has thrown the "No implementation
\* registered" runtime_error exactly when the call found no entry for T in the
\* registry, whatever the producer of a registered T returned.
C15_RequiredIffUnregistered ==
    \A t \in Threads :
        Finished(t) =>
            (result[t].required.kind = "runtime_error" <=> result[t].e = NoCreator)

C17_CopyBound ==
    [][\A t \in Threads :
        LET f == stack[t][1]
            r == result'[t]
        IN  stack[t] # << >> =>
            /\ \A c \in Containers \ {f.c} : _singletons'[c] = _singletons[c]
            /\ /\ stack'[t] = << >> /\ r.kind = "returned"
               /\ f.e.type = f.T /\ f.e.shape = "SingletonType"
               => /\ _singletons'[f.c][hash_code(f.T)] = r.value
                  /\ r.fresh => heap'[r.value].by = f.c]_vars

\* The objects built so far by the call thread t is making.
BuiltInCall(t) == (stack[t][1].h0 + 1)..Len(heap)

\* C18: every call of GetService returns; and within one call the producer of a
\* singleton runs at most once: its run count grows by at most one while an
\* activation resolving it is open, and no two objects built during the call
\* come from the same singleton producer.
C18_Terminates ==
    /\ \A t \in Threads : (stack[t] # << >>) ~> (stack[t] = << >>)
    /\ [](\A t \in Threads :
            /\ \A i \in DOMAIN stack[t] :
                  LET f == stack[t][i] IN
                  f.e.shape \in ProducedSingletons =>
                        invocations[f.e.owner][f.e.type] - f.i0 <= 1
            /\ stack[t] # << >> =>
                  \A i, j \in BuiltInCall(t) :
                        /\ i # j /\ heap[i].via \in ProducedSingletons
                        /\ heap[i].via = heap[j].via /\ heap[i].by = heap[j].by
                        => heap[i].type # heap[j].type
            /\ Finished(t) /\ result[t].e.shape \in ProducedSingletons => result[t].runs <= 1)

\* C18's case: a call on a singleton whose producer resolves another singleton
\* has returned, having built both.
C18_Witness ==
    /\ Finished(MainThread) /\ result[MainThread].kind = "returned"
    /\ result[MainThread].e.shape = "SingletonFactoryC"
    /\ result[MainThread].built = 2 /\ result[MainThread].runs = 1
    /\ heap[result[MainThread].value].dep # Null
    /\ heap[heap[result[MainThread].value].dep].via \in ProducedSingletons

\* C19: every key of a container's singleton cache is a key of its registry,
\* and the creator registered under it is the singleton-by-type creator; a key
\* whose registration is of any other kind has no cache entry.
C19_CacheWithinRegistry ==
    \A c \in Containers, k \in Keys :
        _singletons[c][k] # Null =>
            /\ _services[c][k] # NoCreator
            /\ _services[c][k].shape = "SingletonType"

\* C19's case: a container holds a cached singleton, and a transient of the
\* same container has been resolved and has no cache entry.
C19_Witness ==
    /\ Finished(MainThread) /\ result[MainThread].e.shape \in TransientShapes
    /\ result[MainThread].value # Null
    /\ _singletons[result[MainThread].c][hash_code(result[MainThread].T)] = Null
    /\ \E k \in Keys : _singletons[result[MainThread].c][k] # Null
====
